---- MODULE Spec2Model ----
(***************************************************************************)
(* E-waste IoT tracking backend (src/backend/main.py): the in-memory       *)
(* Device Registry, Event Log and Alert Log, the sensor event generator,   *)
(* the register endpoint, the analytics summary and the websocket          *)
(* ConnectionManager, as one asyncio event loop.                           *)
(*                                                                         *)
(* Scheduling model.  The program runs on one asyncio event loop: a task   *)
(* runs without interruption until it reaches an await, and another task   *)
(* may run only while it is suspended there.  Each action below is the     *)
(* code one task executes between two consecutive awaits.  ws.send_json    *)
(* serializes its argument and hands it to the channel when it is called;  *)
(* the await on it is the wait point that follows.                         *)
(*                                                                         *)
(* Specifications.  Spec explores the ConnectionManager with two clients,  *)
(* the generator and the register requests interleaved at every await.     *)
(* SpecData explores every event kind and every draw of the generator and  *)
(* the register requests with no client connected.  SpecRegister explores  *)
(* register_device with every kind of request body and of token.           *)
(* SpecAnalytics applies analytics_summary to every registry over          *)
(* DeviceIds.                                                              *)
(*                                                                         *)
(* Units.  hazard_score is kept in tenths, lat/lng in 1e-4 degrees,        *)
(* weight_kg and co2_saved_kg in hundredths, compliance_rate in tenths of  *)
(* a percent.  An optional dictionary key is a sequence: <<>> when the key *)
(* is absent, <<v>> when it is present with value v.                       *)
(***************************************************************************)
EXTENDS Integers, Sequences, FiniteSets, TLC

(* ------------------------------ bounds --------------------------------- *)
\* generator ticks explored with the clients (Spec) and without them (SpecData)
MaxTicks == 1
MaxDataTicks == 2
\* register requests explored
MaxRegs == 1
\* websocket clients explored, named in the order they open /ws
Clients == <<"w1", "w2">>
\* event kinds the generator draws while the clients are explored
HubEventTypes == {"gps_update"}
\* values generate_device_id may return, and the ids the seeding produced
DeviceIds == {"EW-A", "EW-B"}
SeedIds == {"EW-A"}
\* values drawn for the random choices of init_demo_data
SeedStatuses == {"collected"}
SeedFacilities == {"F003"}
SeedHazards == {65}
SeedWeights == {500}
SeedCo2 == {1000}
SeedOffsets == {0}
SeedEventKinds == {"hazmat_detected"}
\* number of seeded events (the program seeds between 15 and 60)
SeedEventCount == 20
\* values drawn for random.uniform(-0.002, 0.002) and random.uniform(0.5, 2)
GpsDeltas == {-20, 20}
HazmatIncrements == {5, 20}
\* facilities and statuses of the registries analytics_summary is applied to
AnalyticsFacilities == {"F001", "F003"}
\* request bodies of register
RegFacilityInputs == {<<"F003">>, <<"F999">>}
RegWeightInputs == {<<>>}
\* the same for the runs without clients: an unknown facility_id, which puts
\* the new device at the certified F001 next to the seeded uncertified one
DataFacilityInputs == {<<"F999">>}
\* the bodies of the runs that explore register_device: no facility_id, a
\* known one, an unknown one; no weight_kg, a weight of 5.0
AllFacilityInputs == {<<>>, <<"F003">>, <<"F999">>}
AllWeightInputs == {<<>>, <<500>>}
\* what a caller can present as a bearer token: none, one that does not
\* parse, an expired one, one issued by create_token, one with a made-up
\* signature around a body that is not expired
Credentials == {"none", "malformed", "expired", "valid", "forged"}
\* what each client of Clients holds when it opens its websocket
ClientCredentials == <<"valid", "none">>

(* ------------------------- program constants --------------------------- *)
STATUSES == {"collected", "in_transit", "at_facility", "processing", "recycled", "flagged"}

EVENT_TYPES == {"scan", "status_change", "weight_verified", "hazmat_alert", "gps_update"}

FACILITIES ==
    << [id |-> "F001", lat |-> 185204, lng |-> 738567, certified |-> TRUE],
       [id |-> "F002", lat |-> 190760, lng |-> 728777, certified |-> TRUE],
       [id |-> "F003", lat |-> 129716, lng |-> 775946, certified |-> FALSE],
       [id |-> "F004", lat |-> 286139, lng |-> 772090, certified |-> TRUE],
       [id |-> "F005", lat |-> 130827, lng |-> 802707, certified |-> TRUE] >>

\* min(10, ...) of the hazard score, in tenths
HazardCap == 100
\* "high" if hazard_score > 7, in tenths
HighHazard == 70
\* EVENTS[-20:]
RecentWindow == 20
\* body.get("weight_kg", 1.0), in hundredths
DefaultWeight == 100
\* random.uniform(0.5, 2): the least and the greatest raise of a hazmat_alert
\* tick, in tenths
HazmatMin == 5
HazmatMax == 20
\* random.uniform(-0.002, 0.002): the greatest move of a gps_update tick on
\* one axis, in 1e-4 degrees
GpsMaxMove == 20

VARIABLES
    DEVICES,      \* dev_id -> device record
    EVENTS,       \* the event log, a sequence
    ALERTS,       \* the alert log, a sequence
    connections,  \* manager.connections, a sequence of websockets
    chan,         \* ws -> "open" | "broken": the client's side of the channel
    hstate,       \* ws -> position of its websocket_endpoint task
    sent,         \* ws -> the send_json calls made on it, in order
    pc,           \* task -> its position (iot_simulator and each register_device)
    frames,       \* task -> the broadcast call it is suspended in
    nextCall,     \* broadcast calls started so far
    ticks,        \* generator ticks so far
    lastDone,     \* the broadcast call that returned last
    lastTick,     \* what the last generator tick did
    hazFlagged,   \* devices forced to flagged and not status_changed since
    summary,      \* last response of analytics_summary
    lastReg       \* the generated id and the body of the last register call

vars == << DEVICES, EVENTS, ALERTS, connections, chan, hstate, sent, pc,
           frames, nextCall, ticks, lastDone, lastTick, hazFlagged, summary, lastReg >>

\* the task created by startup() that runs iot_simulator
GenTask == 0
\* the tasks that run register_device, one per request
Requests == 1..MaxRegs
Callers == {GenTask} \cup Requests
Subscribers == {Clients[i] : i \in 1..Len(Clients)}

(* ------------------------------ helpers -------------------------------- *)
\* list.remove(x): drops the first occurrence of x; the caller checks membership
RECURSIVE Remove(_, _)
Remove(s, x) ==
    IF s = <<>> THEN <<>>
    ELSE IF Head(s) = x THEN Tail(s)
    ELSE <<Head(s)>> \o Remove(Tail(s), x)

Range(s) == {s[i] : i \in 1..Len(s)}

Min(a, b) == IF a < b THEN a ELSE b

Max(a, b) == IF a > b THEN a ELSE b

\* s[::-1]
RECURSIVE Reverse(_)
Reverse(s) == IF s = <<>> THEN <<>> ELSE Reverse(Tail(s)) \o <<Head(s)>>

\* s[-n:]
LastN(s, n) == IF Len(s) <= n THEN s ELSE SubSeq(s, Len(s) - n + 1, Len(s))

\* the lookup with the last facility of the list as its default
FacilityOf_LastAsDefault(fid) ==
    LET hits == {i \in 1..Len(FACILITIES) : fid = <<FACILITIES[i].id>>}
    IN  IF hits = {} THEN FACILITIES[Len(FACILITIES)]
        ELSE FACILITIES[CHOOSE i \in hits : \A j \in hits : i <= j]

\* next((f for f in FACILITIES if f["id"] == fid), FACILITIES[0])
FacilityOf(fid) ==
    LET hits == {i \in 1..Len(FACILITIES) : fid = <<FACILITIES[i].id>>}
    IN  IF hits = {} THEN FACILITIES[1]
        ELSE FACILITIES[CHOOSE i \in hits : \A j \in hits : i <= j]

(* ---------------------------- data records ----------------------------- *)
\* the dictionary init_demo_data and register_device store in DEVICES
Device(id, fac, status, hazard, weight, co2, dlat, dlng) ==
    [ id |-> id, status |-> status, hazard_score |-> hazard,
      weight_kg |-> weight, facility_id |-> fac.id,
      lat |-> fac.lat + dlat, lng |-> fac.lng + dlng,
      certified_recycler |-> fac.certified, co2_saved_kg |-> co2 ]

\* an entry that leaves the alert key of update out
EventRecord_DropsAlert(id, update, fid) ==
    [ id |-> id, device_id |-> update.device_id, event |-> update.event,
      new_status |-> update.new_status, lat |-> update.lat, lng |-> update.lng,
      alert |-> <<>>, facility_id |-> fid ]

\* one entry of EVENTS: the keys of update plus id and facility_id
EventRecord(id, update, fid) ==
    [ id |-> id, device_id |-> update.device_id, event |-> update.event,
      new_status |-> update.new_status, lat |-> update.lat, lng |-> update.lng,
      alert |-> update.alert, facility_id |-> fid ]

\* the seeded registries init_demo_data can leave behind
SeedRegistries ==
    { [d \in SeedIds |-> Device(d, FacilityOf(<<c.fid>>), c.status, c.hazard,
                                c.weight, c.co2, c.dlat, c.dlng)] :
        c \in [ fid : SeedFacilities, status : SeedStatuses, hazard : SeedHazards,
                weight : SeedWeights, co2 : SeedCo2,
                dlat : SeedOffsets, dlng : SeedOffsets ] }

\* seeded events numbered from 1, the length of the log after each append
SeedEvents_NumberedFromOne(devs, kind) ==
    LET d == CHOOSE x \in DOMAIN devs : TRUE
    IN  [ i \in 1..SeedEventCount |->
            EventRecord(i,
                        [ device_id |-> d, event |-> kind, new_status |-> <<>>,
                          lat |-> <<>>, lng |-> <<>>, alert |-> <<>> ],
                        devs[d].facility_id) ]

\* the seeded events: ids are len(EVENTS) at each append
SeedEvents(devs, kind) ==
    LET d == CHOOSE x \in DOMAIN devs : TRUE
    IN  [ i \in 1..SeedEventCount |->
            EventRecord(i - 1,
                        [ device_id |-> d, event |-> kind, new_status |-> <<>>,
                          lat |-> <<>>, lng |-> <<>>, alert |-> <<>> ],
                        devs[d].facility_id) ]

(* --------------------------- ConnectionManager ------------------------- *)
\* data of a broadcast call holds a reference to a device dictionary: obj is
\* <<>> while that dictionary is the one DEVICES holds under dev, and the
\* dictionary itself once DEVICES[dev] was bound to another one
NoFrame ==
    [ active |-> FALSE, call |-> 0, type |-> "", payload |-> <<>>, dev |-> "",
      obj |-> <<>>, i |-> 0, dead |-> <<>>, start |-> {} ]

\* entering broadcast(data): dead = [] and a fresh iterator over self.connections
NewFrame(call, type, payload, dev, conns) ==
    [ active |-> TRUE, call |-> call, type |-> type, payload |-> payload,
      dev |-> dev, obj |-> <<>>, i |-> 1, dead |-> <<>>, start |-> Range(conns) ]

\* the dictionary the data of frame f refers to, as it is now
FrameObject(f, devs) == IF f.obj = <<>> THEN devs[f.dev] ELSE f.obj[1]

\* DEVICES[dev_id] = {...} binds the key to a new dictionary: the calls in
\* progress whose data refers to the old one keep it, as it was
Rebind(fr, dev_id, devs) ==
    [ c \in DOMAIN fr |->
        IF fr[c].active /\ fr[c].dev = dev_id /\ fr[c].obj = <<>> /\ dev_id \in DOMAIN devs
        THEN [fr[c] EXCEPT !.obj = <<devs[dev_id]>>]
        ELSE fr[c] ]

\* Serialize reading DEVICES[dev] by key again at each send
Serialize_ByKey(f, devs, ok) ==
    [ type |-> f.type, call |-> f.call, ok |-> ok,
      payload |-> IF f.type = "iot_event" THEN f.payload ELSE <<devs[f.dev]>>,
      device |-> IF f.type = "iot_event" THEN <<devs[f.dev]>> ELSE <<>>,
      devices |-> <<>>, recent_events |-> <<>> ]

\* what send_json puts on the wire: data holds a reference to the device
\* dictionary, so the record is read when the message is serialized
Serialize(f, devs, ok) ==
    [ type |-> f.type, call |-> f.call, ok |-> ok,
      payload |-> IF f.type = "iot_event" THEN f.payload ELSE <<FrameObject(f, devs)>>,
      device |-> IF f.type = "iot_event" THEN <<FrameObject(f, devs)>> ELSE <<>>,
      devices |-> <<>>, recent_events |-> <<>> ]

\* InitMessage with EVENTS[-20:] sent oldest first (the [::-1] left out)
InitMessage_OldestFirst(devs, evs, ok) ==
    [ type |-> "init", call |-> 0, ok |-> ok, payload |-> <<>>, device |-> <<>>,
      devices |-> <<devs>>, recent_events |-> <<LastN(evs, RecentWindow)>> ]

\* the init message of websocket_endpoint
InitMessage(devs, evs, ok) ==
    [ type |-> "init", call |-> 0, ok |-> ok, payload |-> <<>>, device |-> <<>>,
      devices |-> <<devs>>, recent_events |-> <<Reverse(LastN(evs, RecentWindow))>> ]

\* for ws in dead: self.connections.remove(ws); remove raises ValueError
\* when ws is not in the list, and the removals before it stay done
RECURSIVE PruneDead(_, _)
PruneDead(conns, dead) ==
    IF dead = <<>> THEN [conns |-> conns, raised |-> FALSE]
    ELSE IF Head(dead) \in Range(conns)
         THEN PruneDead(Remove(conns, Head(dead)), Tail(dead))
         ELSE [conns |-> conns, raised |-> TRUE]

\* broadcast from one await to the next: the list iterator reads
\* self.connections[i] of the live list; when it is exhausted the dead are pruned
BroadcastResume(f, conns, ch, devs) ==
    IF f.i <= Len(conns)
    THEN LET ws == conns[f.i]
             ok == ch[ws] = "open"
         IN  [ frame |-> [f EXCEPT !.i = @ + 1,
                                   !.dead = IF ok THEN @ ELSE Append(@, ws)],
               conns |-> conns, to |-> <<ws>>, msg |-> Serialize(f, devs, ok),
               raised |-> FALSE, returned |-> FALSE ]
    ELSE LET p == PruneDead(conns, f.dead)
         IN  [ frame |-> NoFrame, conns |-> p.conns, to |-> <<>>,
               msg |-> Serialize(f, devs, FALSE),
               raised |-> p.raised, returned |-> ~p.raised ]

\* where the caller of broadcast is after the step
AfterBroadcast(c, r) ==
    IF r.raised THEN (IF c = GenTask THEN "stopped" ELSE "error")
    ELSE IF r.returned THEN (IF c = GenTask THEN "sleep" ELSE "done")
    ELSE "broadcast"

\* task c runs broadcast frame f up to its next await; fr are the frames of
\* the calls in progress
RunBroadcast(c, f, devs, fr) ==
    LET r == BroadcastResume(f, connections, chan, devs)
    IN  /\ frames' = [fr EXCEPT ![c] = r.frame]
        /\ connections' = r.conns
        /\ sent' = IF r.to = <<>> THEN sent
                   ELSE [sent EXCEPT ![r.to[1]] = Append(@, r.msg)]
        /\ pc' = [pc EXCEPT ![c] = AfterBroadcast(c, r)]
        /\ lastDone' = IF r.raised \/ r.returned
                       THEN [ call |-> f.call,
                              members |-> { w \in f.start :
                                              /\ w \in Range(connections)
                                              /\ chan[w] = "open" } ]
                       ELSE lastDone

\* a suspended broadcast is resumed
BroadcastIter(c) ==
    /\ frames[c].active
    /\ RunBroadcast(c, frames[c], DEVICES, frames)
    /\ UNCHANGED << DEVICES, EVENTS, ALERTS, chan, hstate, nextCall, ticks,
                    lastTick, hazFlagged, summary, lastReg >>

(* ----------------------------- iot_simulator --------------------------- *)
\* the random draws one tick of the given kind makes
TickDraws(event_type) ==
    [ new_status : IF event_type = "status_change" THEN STATUSES ELSE {""},
      dlat : IF event_type = "gps_update" THEN GpsDeltas ELSE {0},
      dlng : IF event_type = "gps_update" THEN GpsDeltas ELSE {0},
      inc : IF event_type = "hazmat_alert" THEN HazmatIncrements ELSE {0} ]

\* ApplyEvent with the certified_recycler test of the hazmat branch inverted
ApplyEvent_FlagsCertified(device, event_type, draw) ==
    IF event_type = "status_change"
    THEN [device EXCEPT !.status = draw.new_status]
    ELSE IF event_type = "gps_update"
    THEN [device EXCEPT !.lat = @ + draw.dlat, !.lng = @ + draw.dlng]
    ELSE IF event_type = "hazmat_alert"
    THEN [device EXCEPT
            !.hazard_score = Min(HazardCap, @ + draw.inc),
            !.status = IF device.certified_recycler THEN "flagged" ELSE @]
    ELSE device

\* the writes of one tick without the min(10, ...) around the raised score
ApplyEvent_NoCap(device, event_type, draw) ==
    IF event_type = "status_change"
    THEN [device EXCEPT !.status = draw.new_status]
    ELSE IF event_type = "gps_update"
    THEN [device EXCEPT !.lat = @ + draw.dlat, !.lng = @ + draw.dlng]
    ELSE IF event_type = "hazmat_alert"
    THEN [device EXCEPT
            !.hazard_score = @ + draw.inc,
            !.status = IF device.certified_recycler THEN @ ELSE "flagged"]
    ELSE device

\* the kind-specific writes of one tick to DEVICES[dev_id]
ApplyEvent(device, event_type, draw) ==
    IF event_type = "status_change"
    THEN [device EXCEPT !.status = draw.new_status]
    ELSE IF event_type = "gps_update"
    THEN [device EXCEPT !.lat = @ + draw.dlat, !.lng = @ + draw.dlng]
    ELSE IF event_type = "hazmat_alert"
    THEN [device EXCEPT
            !.hazard_score = Min(HazardCap, @ + draw.inc),
            !.status = IF device.certified_recycler THEN @ ELSE "flagged"]
    ELSE device

\* an alert that is high from a score of 7 on
AlertRecord_HighFromSeven(alerts, device) ==
    [ id |-> Len(alerts), device_id |-> device.id, type |-> "HAZMAT",
      severity |-> IF device.hazard_score >= HighHazard THEN "high" ELSE "medium" ]

\* the alert dictionary of a hazmat_alert tick; device is the record after
\* the hazard score was raised
AlertRecord(alerts, device) ==
    [ id |-> Len(alerts), device_id |-> device.id, type |-> "HAZMAT",
      severity |-> IF device.hazard_score > HighHazard THEN "high" ELSE "medium" ]

\* the update dictionary of one tick
UpdateRecord(device, event_type, alerts) ==
    [ device_id |-> device.id, event |-> event_type,
      new_status |-> IF event_type = "status_change" THEN <<device.status>> ELSE <<>>,
      lat |-> IF event_type = "gps_update" THEN <<device.lat>> ELSE <<>>,
      lng |-> IF event_type = "gps_update" THEN <<device.lng>> ELSE <<>>,
      alert |-> IF event_type = "hazmat_alert"
                THEN <<AlertRecord(alerts, device)>> ELSE <<>> ]

\* one pass of the while loop: from the return of asyncio.sleep to the first
\* await inside manager.broadcast
Tick(kinds, limit) ==
    /\ pc[GenTask] = "sleep"
    /\ ticks < limit
    /\ DOMAIN DEVICES # {}
    /\ \E dev_id \in DOMAIN DEVICES, event_type \in kinds :
         \E draw \in TickDraws(event_type) :
            LET device == ApplyEvent(DEVICES[dev_id], event_type, draw)
                update == UpdateRecord(device, event_type, ALERTS)
                devs == [DEVICES EXCEPT ![dev_id] = device]
            IN  /\ DEVICES' = devs
                /\ ALERTS' = IF event_type = "hazmat_alert"
                             THEN Append(ALERTS, update.alert[1]) ELSE ALERTS
                /\ EVENTS' = Append(EVENTS,
                                    EventRecord(Len(EVENTS), update, device.facility_id))
                /\ nextCall' = nextCall + 1
                /\ ticks' = ticks + 1
                /\ lastTick' = [ device_id |-> dev_id, event |-> event_type,
                                 prev |-> <<DEVICES[dev_id]>> ]
                /\ hazFlagged' =
                     IF event_type = "hazmat_alert" /\ ~DEVICES[dev_id].certified_recycler
                     THEN hazFlagged \cup {dev_id}
                     ELSE IF event_type = "status_change"
                     THEN hazFlagged \ {dev_id}
                     ELSE hazFlagged
                /\ RunBroadcast(GenTask,
                                NewFrame(nextCall + 1, "iot_event", <<update>>,
                                         dev_id, connections),
                                devs, frames)
    /\ UNCHANGED << chan, hstate, summary, lastReg >>

(* ------------------------------ authorization ------------------------- *)
\* verify_token: splits the token, decodes its body and compares exp with the
\* clock; the signature part is never looked at
VerifyToken(cred) == cred \in {"valid", "forged"}

\* get_current_user: HTTPBearer refuses a request without a bearer header,
\* then verify_token decides
GetCurrentUser(cred) == cred # "none" /\ VerifyToken(cred)

\* the credential client ws holds
CredentialOf(ws) == ClientCredentials[CHOOSE i \in 1..Len(Clients) : Clients[i] = ws]

(* ---------------------------- register_device -------------------------- *)
\* the record register_device stores under the generated id
NewDevice(dev_id, fid, weight) ==
    Device(dev_id, FacilityOf(fid), "collected", 0,
           IF weight = <<>> THEN DefaultWeight ELSE weight[1], 0, 0, 0)

\* POST /api/devices/register up to the first await inside manager.broadcast;
\* Depends(get_current_user) has let the request through
Register(r, fids, weights) ==
    /\ pc[r] = "idle"
    /\ \E cred \in Credentials : GetCurrentUser(cred)
    /\ \E dev_id \in DeviceIds, fid \in fids, weight \in weights :
         LET devs == [ d \in DOMAIN DEVICES \cup {dev_id} |->
                         IF d = dev_id THEN NewDevice(dev_id, fid, weight)
                         ELSE DEVICES[d] ]
         IN  /\ DEVICES' = devs
             /\ nextCall' = nextCall + 1
             /\ lastReg' = [id |-> dev_id, facility_id |-> fid, weight_kg |-> weight]
             /\ RunBroadcast(r,
                             NewFrame(nextCall + 1, "new_device", <<>>,
                                      dev_id, connections),
                             devs, Rebind(frames, dev_id, DEVICES))
    /\ UNCHANGED << EVENTS, ALERTS, chan, hstate, ticks, lastTick, hazFlagged, summary >>

\* POST /api/devices/register with a token get_current_user refuses: the
\* dependency raises 401 (403 without a header) and the handler never runs
RegisterUnauthorized(r) ==
    /\ pc[r] = "idle"
    /\ \E cred \in Credentials : ~GetCurrentUser(cred)
    /\ pc' = [pc EXCEPT ![r] = "unauthorized"]
    /\ UNCHANGED << DEVICES, EVENTS, ALERTS, connections, chan, hstate, sent, frames,
                    nextCall, ticks, lastDone, lastTick, hazFlagged, summary, lastReg >>

\* GET /api/devices/{device_id} for a caller get_current_user let through:
\* 404 for an unknown id, else the record DEVICES holds (the events key of the
\* response is not part of this model)
GetDevice(devs, device_id) ==
    IF device_id \notin DOMAIN devs
    THEN [status_code |-> 404, device |-> <<>>]
    ELSE [status_code |-> 200, device |-> <<devs[device_id]>>]

(* --------------------------- websocket_endpoint ------------------------ *)
\* WsOpen with connect appending ws before it awaits ws.accept()
WsOpen_AppendsBeforeAccept(ws) ==
    /\ hstate[ws] = "idle"
    /\ hstate' = [hstate EXCEPT ![ws] = "accepting"]
    /\ connections' = Append(connections, ws)
    /\ UNCHANGED << DEVICES, EVENTS, ALERTS, chan, sent, pc, frames,
                    nextCall, ticks, lastDone, lastTick, hazFlagged, summary, lastReg >>

\* a client opens /ws: the handler task starts and awaits ws.accept()
WsOpen(ws) ==
    /\ hstate[ws] = "idle"
    /\ hstate' = [hstate EXCEPT ![ws] = "accepting"]
    /\ UNCHANGED << DEVICES, EVENTS, ALERTS, connections, chan, sent, pc, frames,
                    nextCall, ticks, lastDone, lastTick, hazFlagged, summary, lastReg >>

\* the client goes away; from now on sends on ws fail and receive_text
\* raises WebSocketDisconnect
ClientClose(ws) ==
    /\ hstate[ws] \in {"accepting", "receiving"}
    /\ chan[ws] = "open"
    /\ chan' = [chan EXCEPT ![ws] = "broken"]
    /\ UNCHANGED << DEVICES, EVENTS, ALERTS, connections, hstate, sent, pc, frames,
                    nextCall, ticks, lastDone, lastTick, hazFlagged, summary, lastReg >>

\* ws.accept() raises: connect never appends and the handler ends
WsAcceptFails(ws) ==
    /\ hstate[ws] = "accepting"
    /\ chan[ws] = "broken"
    /\ hstate' = [hstate EXCEPT ![ws] = "accept_failed"]
    /\ UNCHANGED << DEVICES, EVENTS, ALERTS, connections, chan, sent, pc, frames,
                    nextCall, ticks, lastDone, lastTick, hazFlagged, summary, lastReg >>

\* ws.accept() returns: connect appends ws, the handler builds the init
\* message and calls send_json, then waits in receive_text.  When the send
\* fails with WebSocketDisconnect the handler calls manager.disconnect; with
\* any other exception the handler ends and ws stays in the list
WsAccepted(ws) ==
    /\ hstate[ws] = "accepting"
    /\ LET ok == chan[ws] = "open"
           conns == Append(connections, ws)
       IN  /\ sent' = [sent EXCEPT ![ws] = Append(@, InitMessage(DEVICES, EVENTS, ok))]
           /\ \/ /\ ok
                 /\ connections' = conns
                 /\ hstate' = [hstate EXCEPT ![ws] = "receiving"]
              \/ /\ ~ok
                 /\ connections' = Remove(conns, ws)
                 /\ hstate' = [hstate EXCEPT ![ws] = "closed"]
              \/ /\ ~ok
                 /\ connections' = conns
                 /\ hstate' = [hstate EXCEPT ![ws] = "send_failed"]
    /\ UNCHANGED << DEVICES, EVENTS, ALERTS, chan, pc, frames, nextCall, ticks,
                    lastDone, lastTick, hazFlagged, summary, lastReg >>

\* manager.disconnect(ws): list.remove raises ValueError when ws is absent
Disconnect(conns, ws) ==
    IF ws \in Range(conns)
    THEN [conns |-> Remove(conns, ws), raised |-> FALSE]
    ELSE [conns |-> conns, raised |-> TRUE]

\* receive_text raises WebSocketDisconnect and the handler calls
\* manager.disconnect(ws)
WsDisconnect(ws) ==
    /\ hstate[ws] = "receiving"
    /\ chan[ws] = "broken"
    /\ LET d == Disconnect(connections, ws)
       IN  /\ connections' = d.conns
           /\ hstate' = [hstate EXCEPT ![ws] = IF d.raised THEN "value_error" ELSE "closed"]
    /\ UNCHANGED << DEVICES, EVENTS, ALERTS, chan, sent, pc, frames, nextCall, ticks,
                    lastDone, lastTick, hazFlagged, summary, lastReg >>

(* ----------------------------- analytics_summary ----------------------- *)
\* round(num / den, 0) as Python rounds: to nearest, ties to even
RoundHalfEven(num, den) ==
    LET q == num \div den
        r == num % den
    IN  IF 2 * r > den THEN q + 1
        ELSE IF 2 * r < den THEN q
        ELSE IF q % 2 = 0 THEN q ELSE q + 1

\* round((len(devs) - len(flagged)) / max(len(devs), 1) * 100, 1), in tenths
ComplianceRate(devs) ==
    LET total == Cardinality(DOMAIN devs)
        flagged == Cardinality({d \in DOMAIN devs : devs[d].status = "flagged"})
    IN  RoundHalfEven((total - flagged) * 1000, Max(total, 1))

\* GET /api/analytics/summary: reads DEVICES, writes nothing but its response
AnalyticsSummary ==
    /\ \E cred \in Credentials : GetCurrentUser(cred)
    /\ summary' = << [ total_devices |-> Cardinality(DOMAIN DEVICES),
                       flagged_count |->
                           Cardinality({d \in DOMAIN DEVICES : DEVICES[d].status = "flagged"}),
                       high_hazard_count |->
                           Cardinality({d \in DOMAIN DEVICES :
                                          DEVICES[d].hazard_score > HighHazard}),
                       compliance_rate |-> ComplianceRate(DEVICES) ] >>
    /\ UNCHANGED << DEVICES, EVENTS, ALERTS, connections, chan, hstate, sent, pc,
                    frames, nextCall, ticks, lastDone, lastTick, hazFlagged, lastReg >>

(* ------------------------------ the program ---------------------------- *)
\* the module-level state besides the registry and the event log
InitRest ==
    /\ ALERTS = <<>>
    /\ connections = <<>>
    /\ chan = [ws \in Subscribers |-> "open"]
    /\ hstate = [ws \in Subscribers |-> "idle"]
    /\ sent = [ws \in Subscribers |-> <<>>]
    /\ pc = [c \in Callers |-> IF c = GenTask THEN "sleep" ELSE "idle"]
    /\ frames = [c \in Callers |-> NoFrame]
    /\ nextCall = 0
    /\ ticks = 0
    /\ lastDone = [call |-> 0, members |-> {}]
    /\ lastTick = [device_id |-> "", event |-> "", prev |-> <<>>]
    /\ hazFlagged = {}
    /\ summary = <<>>
    /\ lastReg = [id |-> "", facility_id |-> <<>>, weight_kg |-> <<>>]

\* the state after import: init_demo_data() has run, no task has started
Init ==
    /\ DEVICES \in SeedRegistries
    /\ \E kind \in SeedEventKinds : EVENTS = SeedEvents(DEVICES, kind)
    /\ InitRest

Next ==
    \/ Tick(HubEventTypes, MaxTicks)
    \/ \E c \in Callers : BroadcastIter(c)
    \/ \E r \in Requests : Register(r, RegFacilityInputs, RegWeightInputs)
    \/ \E r \in Requests : RegisterUnauthorized(r)
    \/ \E i \in 1..Len(Clients) :
          /\ \A j \in 1..(i - 1) : hstate[Clients[j]] # "idle"
          /\ WsOpen(Clients[i])
    \/ \E ws \in Subscribers : ClientClose(ws)
    \/ \E ws \in Subscribers : WsAcceptFails(ws)
    \/ \E ws \in Subscribers : WsAccepted(ws)
    \/ \E ws \in Subscribers : WsDisconnect(ws)

Spec == Init /\ [][Next]_vars

\* every event kind and every draw of the generator, with no client connected:
\* each broadcast finds self.connections empty and returns at once
NextData ==
    \/ Tick(EVENT_TYPES, MaxDataTicks)
    \/ \E r \in Requests : Register(r, DataFacilityInputs, RegWeightInputs)

SpecData == Init /\ [][NextData]_vars

\* register_device with every kind of body and with tokens that are accepted
\* and refused, between the ticks of the generator, with no client connected
NextRegister ==
    \/ Tick(EVENT_TYPES, MaxTicks)
    \/ \E r \in Requests : Register(r, AllFacilityInputs, AllWeightInputs)
    \/ \E r \in Requests : RegisterUnauthorized(r)

SpecRegister == Init /\ [][NextRegister]_vars

\* analytics_summary as a function of the registry it reads: the registries
\* over DeviceIds, the empty one included (the case max(len(devs), 1) is for)
AnalyticsRegistries ==
    UNION { { [ d \in S |-> Device(d, FacilityOf(<<g[d].fid>>), g[d].status, 0,
                                   DefaultWeight, 0, 0, 0) ] :
                g \in [S -> [fid : AnalyticsFacilities, status : STATUSES]] } :
            S \in SUBSET DeviceIds }

InitAnalytics ==
    /\ DEVICES \in AnalyticsRegistries
    /\ EVENTS = <<>>
    /\ InitRest

NextAnalytics == AnalyticsSummary

SpecAnalytics == InitAnalytics /\ [][NextAnalytics]_vars

(* ======================================================================= *)
(* Properties                                                              *)
(* ======================================================================= *)
\* the messages ws received: the sends on it that did not fail
Received(ws) == SelectSeq(sent[ws], LAMBDA m : m.ok)

\* how many times ws received the message of a broadcast call
Deliveries(ws, call) ==
    Cardinality({i \in 1..Len(sent[ws]) : sent[ws][i].ok /\ sent[ws][i].call = call})

\* the device view of a client: the init snapshot, then each new_device and
\* iot_event message applied in the order received
RECURSIVE ApplyMessages(_, _)
ApplyMessages(view, msgs) ==
    IF msgs = <<>> THEN view
    ELSE LET m == Head(msgs)
             d == IF m.type = "new_device" THEN m.payload[1] ELSE m.device[1]
         IN  ApplyMessages(
                 IF m.type = "init" THEN m.devices[1]
                 ELSE [x \in DOMAIN view \cup {d.id} |-> IF x = d.id THEN d ELSE view[x]],
                 Tail(msgs))

\* C1: when a broadcast call ends, every subscriber that was in the connection
\* set from its start to its end and whose channel did not fail has received
\* the message of that call exactly once.
C1_EveryStayingSubscriberReceivesOnce ==
    \A ws \in lastDone.members : Deliveries(ws, lastDone.call) = 1

\* C2: the generator task never stops: its broadcast never raises.
C2_GeneratorNeverStops == pc[GenTask] # "stopped"

\* C3: disconnect of a subscriber that is no longer in the connection set
\* completes without error.
C3_DisconnectIsIdempotent == \A ws \in Subscribers : hstate[ws] # "value_error"

C5_PerSubscriberInOrder ==
    \A ws \in Subscribers :
        LET r == Received(ws)
        IN  \A i, j \in 1..Len(r) :
                (i < j /\ r[i].type # "init" /\ r[j].type # "init") => r[i].call < r[j].call

\* C6: a connection is sent exactly one init message, and it is the first
\* message sent on it: nothing is sent before accept returns, and every later
\* message is an iot_event or a new_device.
C6_InitOnceAndFirst ==
    \A ws \in Subscribers :
        /\ hstate[ws] \in {"idle", "accepting", "accept_failed"} => sent[ws] = <<>>
        /\ hstate[ws] \in {"receiving", "closed", "send_failed", "value_error"} =>
               sent[ws] # <<>>
        /\ sent[ws] # <<>> =>
               /\ sent[ws][1].type = "init"
               /\ \A i \in 2..Len(sent[ws]) : sent[ws][i].type \in {"iot_event", "new_device"}

\* C6 witness: a client was sent its init message and then the message of a
\* broadcast call that had started before the client was in the connection set
\* and is still in progress.
C6_Witness ==
    \E ws \in Subscribers, c \in Callers :
        /\ frames[c].active
        /\ ws \notin frames[c].start
        /\ Len(sent[ws]) >= 2
        /\ sent[ws][1].type = "init"
        /\ sent[ws][1].ok
        /\ \E i \in 2..Len(sent[ws]) : sent[ws][i].call = frames[c].call /\ sent[ws][i].ok

\* the recent_events of a snapshot: the min(20, len) events with the highest
\* sequence numbers, newest first
IsRecentOf(recent, evs) ==
    /\ Len(recent) = Min(Len(evs), RecentWindow)
    /\ \A i \in 1..Len(recent) : recent[i] = evs[Len(evs) + 1 - i]
    /\ \A i \in 1..Len(recent) : recent[i].id = Len(evs) - i
    /\ \A i \in 1..(Len(recent) - 1) : recent[i].id > recent[i + 1].id

\* C7: in the step that adds a subscriber to the connection set, the init
\* message sent to it carries the Registry as it is in that step and the at
\* most 20 newest events in strictly decreasing sequence order.
C7_InitSnapshotIsCurrent ==
    [][ \A ws \in Subscribers :
          (Len(sent'[ws]) = Len(sent[ws]) + 1 /\ sent'[ws][Len(sent'[ws])].type = "init") =>
              LET m == sent'[ws][Len(sent'[ws])]
              IN  /\ m.devices = <<DEVICES>>
                  /\ m.devices = <<DEVICES'>>
                  /\ EVENTS' = EVENTS
                  /\ IsRecentOf(m.recent_events[1], EVENTS') ]_vars

\* C7 witness: a client received a snapshot of exactly 20 events taken when the
\* log held more than 20, with a device in it that was registered after seeding.
C7_Witness ==
    \E ws \in Subscribers :
        /\ sent[ws] # <<>>
        /\ sent[ws][1].type = "init"
        /\ sent[ws][1].ok
        /\ Len(sent[ws][1].recent_events[1]) = RecentWindow
        /\ sent[ws][1].recent_events[1][1].id >= RecentWindow
        /\ DOMAIN sent[ws][1].devices[1] # SeedIds

\* C8: for a connected subscriber whose channel has not failed, whenever no
\* broadcast call is in progress, the view built from the messages it received
\* equals the Registry.
C8_LateJoinerConverges ==
    \A ws \in Subscribers :
        ( /\ hstate[ws] = "receiving"
          /\ chan[ws] = "open"
          /\ ws \in Range(connections)
          /\ \A c \in Callers : ~frames[c].active )
        => ApplyMessages(<<>>, Received(ws)) = DEVICES

\* C9: the step that appends a hazmat_alert event for a device leaves the
\* device flagged when its certified_recycler flag is false, and leaves its
\* status unchanged when the flag is true.
C9_HazmatForcesFlagged ==
    [][ ( /\ Len(EVENTS') = Len(EVENTS) + 1
          /\ EVENTS'[Len(EVENTS')].event = "hazmat_alert" )
        => LET d == EVENTS'[Len(EVENTS')].device_id
           IN  /\ d \in DOMAIN DEVICES
               /\ DEVICES'[d].certified_recycler = DEVICES[d].certified_recycler
               /\ IF DEVICES[d].certified_recycler
                  THEN DEVICES'[d].status = DEVICES[d].status
                  ELSE DEVICES'[d].status = "flagged" ]_vars

\* C9 witness: the last event of the log is a hazmat_alert on an uncertified
\* device whose status before the tick was neither flagged nor the initial
\* collected, and the device is flagged now.
C9_Witness ==
    /\ EVENTS[Len(EVENTS)].event = "hazmat_alert"
    /\ lastTick.event = "hazmat_alert"
    /\ lastTick.device_id = EVENTS[Len(EVENTS)].device_id
    /\ ~lastTick.prev[1].certified_recycler
    /\ lastTick.prev[1].status \notin {"flagged", "collected"}
    /\ DEVICES[lastTick.device_id].status = "flagged"

\* C10: a device forced to flagged by a hazmat_alert tick stays flagged until a
\* status_change tick on that device.
C10_FlaggedUntilStatusChange ==
    \A d \in hazFlagged : DEVICES[d].status = "flagged"

\* the step of a tick of the given kind: it appends one event of that kind
TickStep(kind) ==
    /\ Len(EVENTS') = Len(EVENTS) + 1
    /\ EVENTS'[Len(EVENTS')].event = kind

\* C11: the hazard score of every device is within [0, 10] in every state,
\* and a hazmat_alert tick raises the score of its device by an amount in
\* [0.5, 2.0], capped at 10.
C11_HazardScoreInRange ==
    /\ [](\A d \in DOMAIN DEVICES :
             DEVICES[d].hazard_score >= 0 /\ DEVICES[d].hazard_score <= HazardCap)
    /\ [][ TickStep("hazmat_alert") =>
             LET d == EVENTS'[Len(EVENTS')].device_id
             IN  \E inc \in HazmatMin..HazmatMax :
                     DEVICES'[d].hazard_score
                         = Min(HazardCap, DEVICES[d].hazard_score + inc) ]_vars

\* C11 witness: a hazmat_alert tick left its device at the cap after a raise
\* that the cap cut short: the score rose by less than any raise drawn.
C11_Witness ==
    /\ lastTick.event = "hazmat_alert"
    /\ EVENTS[Len(EVENTS)].event = "hazmat_alert"
    /\ lastTick.device_id \in DOMAIN DEVICES
    /\ DEVICES[lastTick.device_id].hazard_score = HazardCap
    /\ lastTick.prev[1].hazard_score < HazardCap
    /\ (HazardCap - lastTick.prev[1].hazard_score) \notin HazmatIncrements

\* C12: the step that creates an alert appends it to the alerts, unchanged
\* ever after, with severity high exactly when the hazard score the Registry
\* holds for its device in that step is greater than 7, medium otherwise.
C12_SeverityFollowsStoredScore ==
    [][ \/ ALERTS' = ALERTS
        \/ /\ Len(ALERTS') = Len(ALERTS) + 1
           /\ SubSeq(ALERTS', 1, Len(ALERTS)) = ALERTS
           /\ LET a == ALERTS'[Len(ALERTS')]
              IN  /\ a.device_id \in DOMAIN DEVICES'
                  /\ a.severity \in {"high", "medium"}
                  /\ a.severity = "high"
                        <=> DEVICES'[a.device_id].hazard_score > HighHazard ]_vars

\* C12 witness: the alerts hold a medium alert raised at a score of exactly 7
\* and a high alert raised at a higher score.
C12_Witness ==
    /\ Len(ALERTS) = 2
    /\ ALERTS[1].severity = "medium"
    /\ ALERTS[2].severity = "high"
    /\ lastTick.event = "hazmat_alert"
    /\ lastTick.prev[1].hazard_score = HighHazard

\* C13: the sequence numbers of the event log are strictly increasing in log
\* order, seeded events included, and the log is append-only: a step leaves
\* it alone or appends one event with a number above all earlier ones.
C13_SequenceNumbersIncrease ==
    /\ [](\A i, j \in 1..Len(EVENTS) : i < j => EVENTS[i].id < EVENTS[j].id)
    /\ [][ \/ EVENTS' = EVENTS
           \/ /\ Len(EVENTS') = Len(EVENTS) + 1
              /\ SubSeq(EVENTS', 1, Len(EVENTS)) = EVENTS
              /\ \A i \in 1..Len(EVENTS) : EVENTS[i].id < EVENTS'[Len(EVENTS')].id ]_vars

\* C13 witness: the log holds the seeded events and two events of ticks.
C13_Witness ==
    /\ Len(EVENTS) = SeedEventCount + 2
    /\ EVENTS[SeedEventCount].event \in SeedEventKinds
    /\ EVENTS[SeedEventCount + 1].event \in EVENT_TYPES
    /\ ticks = 2

\* the indices of the events of the log that are hazmat_alert events
HazmatEvents == {i \in 1..Len(EVENTS) : EVENTS[i].event = "hazmat_alert"}

\* C14: in every state in which another task can run, each alert is attached
\* to exactly one hazmat_alert event, of the same device, every hazmat_alert
\* event carries exactly one alert, and there are as many alerts as
\* hazmat_alert events.
C14_AlertsMatchHazmatEvents ==
    /\ Cardinality(HazmatEvents) = Len(ALERTS)
    /\ \A i \in HazmatEvents :
           /\ Len(EVENTS[i].alert) = 1
           /\ EVENTS[i].alert[1].device_id = EVENTS[i].device_id
           /\ \E k \in 1..Len(ALERTS) : ALERTS[k] = EVENTS[i].alert[1]
    /\ \A k \in 1..Len(ALERTS) :
           Cardinality({i \in HazmatEvents : EVENTS[i].alert = <<ALERTS[k]>>}) = 1
    /\ \A i \in 1..Len(EVENTS) : i \notin HazmatEvents => EVENTS[i].alert = <<>>

\* C14 witness: two alerts were raised, and the log also holds events that
\* are not hazmat_alert events.
C14_Witness ==
    /\ Len(ALERTS) = 2
    /\ Cardinality(HazmatEvents) = 2
    /\ Len(EVENTS) > 2

\* the step in which request r runs register_device
RegisterStep(r) == pc[r] = "idle" /\ pc'[r] \notin {"idle", "unauthorized"}

\* the facility a register call with the given facility_id is to use: the one
\* of that id, or F001 when the id is missing or names no facility
ChosenFacility(fid) ==
    LET wanted == IF \E i \in 1..Len(FACILITIES) : fid = <<FACILITIES[i].id>>
                  THEN fid[1] ELSE "F001"
    IN  FACILITIES[CHOOSE i \in 1..Len(FACILITIES) : FACILITIES[i].id = wanted]

\* C15: a register call, whether its facility_id is known, unknown or
\* missing, returns without failing, and a get on the returned id right after
\* it yields a record with status collected, hazard score 0, CO2 saved 0, and
\* the coordinates and the certification flag of the chosen facility, which
\* is F001 when facility_id is missing or matches no facility.
C15_RegisterCreatesRecord ==
    [][ \A r \in Requests : RegisterStep(r) =>
          LET fac == ChosenFacility(lastReg'.facility_id)
              got == GetDevice(DEVICES', lastReg'.id)
          IN  /\ pc'[r] = "done"
              /\ got.status_code = 200
              /\ got.device[1].id = lastReg'.id
              /\ got.device[1].status = "collected"
              /\ got.device[1].hazard_score = 0
              /\ got.device[1].co2_saved_kg = 0
              /\ got.device[1].facility_id = fac.id
              /\ got.device[1].lat = fac.lat
              /\ got.device[1].lng = fac.lng
              /\ got.device[1].certified_recycler = fac.certified ]_vars

\* C15 witness: a register call without facility_id has returned an id that
\* was not seeded, and the Registry holds its record, at facility F001.
C15_Witness ==
    \E r \in Requests :
        /\ pc[r] = "done"
        /\ lastReg.facility_id = <<>>
        /\ lastReg.id \in DOMAIN DEVICES \ SeedIds
        /\ DEVICES[lastReg.id].facility_id = "F001"
        /\ DEVICES[lastReg.id].status = "collected"

\* C16: a caller whose authorization fails gets no Registry or log data and
\* changes nothing: a client without a token the authorization accepts is
\* never in the connection set and is never sent a message, and a register
\* call that is refused leaves the Registry, the logs, the connection set and
\* what was sent alone.
C16_UnauthorizedCallerRejected ==
    /\ [](\A ws \in Subscribers :
             ~GetCurrentUser(CredentialOf(ws)) =>
                 sent[ws] = <<>> /\ ws \notin Range(connections))
    /\ [][ \A r \in Requests :
             (pc[r] = "idle" /\ pc'[r] = "unauthorized") =>
                 UNCHANGED << DEVICES, EVENTS, ALERTS, connections, sent >> ]_vars

\* the messages of kind type that the subscribers received, with who got them
ReceivedOfType(type) ==
    UNION { { [ws |-> w, m |-> sent[w][i]] :
                i \in {k \in 1..Len(sent[w]) : sent[w][k].ok /\ sent[w][k].type = type} } :
            w \in Subscribers }

\* C17: a gps_update tick moves the stored latitude and longitude of its
\* device by at most 0.002 each, the coordinates of its event are the stored
\* ones after the tick, and all subscribers that receive the iot_event of one
\* tick receive the same payload and the same device snapshot, whose
\* coordinates are those of the payload.
C17_GpsUpdateDeliveredAlike ==
    /\ [][ TickStep("gps_update") =>
             LET e == EVENTS'[Len(EVENTS')]
                 d == e.device_id
             IN  /\ DEVICES'[d].lat - DEVICES[d].lat \in (-GpsMaxMove)..GpsMaxMove
                 /\ DEVICES'[d].lng - DEVICES[d].lng \in (-GpsMaxMove)..GpsMaxMove
                 /\ e.lat = <<DEVICES'[d].lat>>
                 /\ e.lng = <<DEVICES'[d].lng>> ]_vars
    /\ [](\A x, y \in ReceivedOfType("iot_event") :
             /\ x.m.call = y.m.call =>
                    x.m.payload = y.m.payload /\ x.m.device = y.m.device
             /\ x.m.payload[1].event = "gps_update" =>
                    /\ x.m.payload[1].device_id = x.m.device[1].id
                    /\ x.m.payload[1].lat = <<x.m.device[1].lat>>
                    /\ x.m.payload[1].lng = <<x.m.device[1].lng>>)

\* C17 witness: two subscribers received the iot_event of one gps_update
\* tick, and the second of them received it after the new_device message of a
\* register call that started later and bound the id of the ticked device to
\* a new record.
C17_Witness ==
    \E x, y \in ReceivedOfType("iot_event") :
        /\ x.ws # y.ws
        /\ x.m.call = y.m.call
        /\ x.m.payload[1].event = "gps_update"
        /\ \E i, j \in 1..Len(sent[y.ws]) :
               /\ i < j
               /\ sent[y.ws][j] = y.m
               /\ sent[y.ws][i].type = "new_device"
               /\ sent[y.ws][i].call > y.m.call
               /\ sent[y.ws][i].payload[1].id = y.m.device[1].id

\* C18: every subscriber that receives the new_device message of a register
\* call receives the record as register created it (status collected, hazard
\* score 0, the coordinates of its facility), and all subscribers that
\* receive the message of one call receive the same record.
C18_NewDeviceAsCreated ==
    \A x, y \in ReceivedOfType("new_device") :
        /\ x.m.call = y.m.call => x.m.payload = y.m.payload
        /\ x.m.payload[1].status = "collected"
        /\ x.m.payload[1].hazard_score = 0
        /\ \E i \in 1..Len(FACILITIES) :
               /\ FACILITIES[i].id = x.m.payload[1].facility_id
               /\ FACILITIES[i].lat = x.m.payload[1].lat
               /\ FACILITIES[i].lng = x.m.payload[1].lng

\* C19: a generator tick changes only the record of the device it selected,
\* and of that record only status, coordinates and hazard score; no step
\* changes the id, the weight, the facility or the certified_recycler flag of
\* a device in the Registry, or lowers its CO2 saved.
C19_FrameOfTickAndRegister ==
    [][ /\ \A k \in EVENT_TYPES : TickStep(k) =>
               LET d == EVENTS'[Len(EVENTS')].device_id
               IN  /\ DOMAIN DEVICES' = DOMAIN DEVICES
                   /\ \A x \in DOMAIN DEVICES \ {d} : DEVICES'[x] = DEVICES[x]
                   /\ DEVICES'[d] = [DEVICES[d] EXCEPT
                                        !.status = DEVICES'[d].status,
                                        !.lat = DEVICES'[d].lat,
                                        !.lng = DEVICES'[d].lng,
                                        !.hazard_score = DEVICES'[d].hazard_score]
        /\ \A d \in DOMAIN DEVICES \cap DOMAIN DEVICES' :
               /\ DEVICES'[d].id = DEVICES[d].id
               /\ DEVICES'[d].weight_kg = DEVICES[d].weight_kg
               /\ DEVICES'[d].facility_id = DEVICES[d].facility_id
               /\ DEVICES'[d].certified_recycler = DEVICES[d].certified_recycler
               /\ DEVICES'[d].co2_saved_kg >= DEVICES[d].co2_saved_kg ]_vars

\* C20: no step removes a device id from the Registry, and a register call
\* stores its record under an id that was not in the Registry, adding one
\* record and leaving every other record as it was.
C20_RegisterAddsFreshId ==
    [][ /\ DOMAIN DEVICES \subseteq DOMAIN DEVICES'
        /\ \A r \in Requests : RegisterStep(r) =>
               /\ lastReg'.id \notin DOMAIN DEVICES
               /\ DOMAIN DEVICES' = DOMAIN DEVICES \cup {lastReg'.id}
               /\ \A d \in DOMAIN DEVICES : DEVICES'[d] = DEVICES[d] ]_vars

====
